---- MODULE Spec2Model ----
(***************************************************************************)
(* Verification model of the bitcoin block codec (src/src/bitcoin-block.js) *)
(* and of the checks its test-suite runs over the transaction merkle and    *)
(* the witness commitment.                                                  *)
(*                                                                          *)
(* Bytes are integers 0..255, byte buffers are sequences of bytes, hex      *)
(* strings are sequences of one-character strings.  JavaScript values are   *)
(* records tagged with a `kind`.                                            *)
(***************************************************************************)
EXTENDS Integers, Sequences, FiniteSets, TLC

\* ------------------------------------------------------------------ bounds
\* longest run of transaction bytes that follows a header in a decode input
MaxExtra == 2
\* number of codec calls made in one behaviour
MaxCalls == 3
\* most transactions in a block
MaxTx == 5
\* most outputs of a coinbase transaction
MaxOuts == 3
\* most inputs of a transaction that is encoded
MaxIns == 2
\* most outputs of a transaction that is encoded
MaxTxOuts == 2

\* --------------------------------------------------------------- constants
\* size of a serialized block header
HeaderSize == 80
\* size of a hash / digest
HashSize == 32
\* multicodec code of the 'bitcoin-block' codec (0xb0)
CODEC_BLOCK_CODE == 176
\* multicodec code of the 'bitcoin-tx' codec (0xb1)
CODEC_TX_CODE == 177
\* multihash code of 'dbl-sha2-256' (0x56)
HASH_ALG == 86

\* ------------------------------------------------------------ byte helpers
Reverse(s) == [i \in 1..Len(s) |-> s[Len(s) + 1 - i]]

\* Buffer.slice(start, end) with 0-based offsets, end exclusive and clamped
Slice(b, start, end) ==
  LET e == IF end > Len(b) THEN Len(b) ELSE end
  IN  IF start >= e THEN <<>> ELSE SubSeq(b, start + 1, e)

\* A number n is held as two 16-bit limbs, n = 65536 * hi + lo with lo in
\* 0..65535, so that every 32-bit value, signed or unsigned, is exact.
Num(hi, lo) == [kind |-> "number", hi |-> hi, lo |-> lo]

WriteUInt32LE(n) ==
  << n.lo % 256, n.lo \div 256, n.hi % 256, (n.hi \div 256) % 256 >>

ReadUInt32LE(b, off) ==
  Num(b[off + 3] + 256 * b[off + 4], b[off + 1] + 256 * b[off + 2])

\* two's complement, 32 bits
WriteInt32LE(n) == WriteUInt32LE(Num(n.hi % 65536, n.lo))

ReadInt32LE(b, off) ==
  LET u == ReadUInt32LE(b, off)
  IN  IF u.hi >= 32768 THEN Num(u.hi - 65536, u.lo) ELSE u

\* --------------------------------------------------------------------- hex
HexDigits ==
  << "0", "1", "2", "3", "4", "5", "6", "7", "8", "9", "a", "b", "c", "d", "e", "f" >>

HexSet == { HexDigits[i] : i \in 1..16 }

HexVal(c) == (CHOOSE n \in 1..16 : HexDigits[n] = c) - 1

\* Buffer.toString('hex')
ToHex(b) ==
  [i \in 1..(2 * Len(b)) |->
     IF i % 2 = 1 THEN HexDigits[(b[(i + 1) \div 2] \div 16) + 1]
                  ELSE HexDigits[(b[i \div 2] % 16) + 1]]

\* Buffer.from(str, 'hex')
FromHex(h) ==
  [i \in 1..(Len(h) \div 2) |-> 16 * HexVal(h[2 * i - 1]) + HexVal(h[2 * i])]

IsHexString(h, n) == Len(h) = n /\ \A i \in 1..Len(h) : h[i] \in HexSet

\* bitcoin-block: hashes are displayed as the hex of the byte-reversed hash
toHashHex(hash) == ToHex(Reverse(hash))

fromHashHex(hex) == Reverse(FromHex(hex))

\* --------------------------------------------------------------- JS values
JsUndefined == [kind |-> "undefined"]
JsNull == [kind |-> "null"]
JsNumber(n) == Num(n \div 65536, n % 65536)
JsString(s) == [kind |-> "string", chars |-> s]
JsBoolean(b) == [kind |-> "boolean", bool |-> b]
JsObject(f) == [kind |-> "object", fields |-> f]
JsUint8Array(b) == [kind |-> "Uint8Array", bytes |-> b]
JsBuffer(b) == [kind |-> "Buffer", bytes |-> b]

\* the typeof operator
TypeOf(v) ==
  IF v.kind \in {"null", "object", "Uint8Array", "Buffer", "CID"}
  THEN "object" ELSE v.kind

\* v instanceof Uint8Array (Buffer is a subclass of Uint8Array)
InstanceOfUint8Array(v) == v.kind \in {"Uint8Array", "Buffer"}

\* v.constructor.name, for the values that reach it
ConstructorName(v) == v.kind

\* outcome of a call: a value, or a thrown error
Returned(v) == [ok |-> TRUE, value |-> v]
Thrown(e) == [ok |-> FALSE, error |-> e]

\* ------------------------------------------- content identifiers (external)
\* multiformats.multihash.encode(digest, alg): code, length, digest
MultihashEncode(digest, alg) == << alg, Len(digest) >> \o digest

\* multiformats.multihash.decode(bytes)
MultihashDecode(mh) == [code |-> mh[1], digest |-> SubSeq(mh, 3, Len(mh))]

\* new multiformats.CID(version, code, multihash)
CID(version, code, multihash) ==
  [kind |-> "CID", version |-> version, code |-> code, multihash |-> multihash]

\* -------------------------------------------- native header parser (external)
\* the properties of a header porcelain that the codec reads or writes
EmptyFields ==
  [version |-> JsUndefined, previousblockhash |-> JsUndefined,
   merkleroot |-> JsUndefined, time |-> JsUndefined, bits |-> JsUndefined,
   nonce |-> JsUndefined, parent |-> JsUndefined, tx |-> JsUndefined]

IsUInt32(v) == v.kind = "number" /\ v.hi >= 0 /\ v.hi < 65536

IsInt32(v) == v.kind = "number" /\ v.hi >= -32768 /\ v.hi < 32768

IsHashHex(v) == v.kind = "string" /\ IsHexString(v.chars, 2 * HashSize)

\* BitcoinBlock.decodeHeaderOnly(buf): the six fixed-width little-endian
\* fields of the first 80 bytes; whatever follows them is not read
DecodeHeaderOnly(b) ==
  IF Len(b) < HeaderSize
  THEN Thrown("Error")
  ELSE Returned([version |-> ReadInt32LE(b, 0),
                 previousblockhash |-> Slice(b, 4, 36),
                 merkleroot |-> Slice(b, 36, 68),
                 time |-> ReadUInt32LE(b, 68),
                 bits |-> ReadUInt32LE(b, 72),
                 nonce |-> ReadUInt32LE(b, 76)])

\* BitcoinBlock#toPorcelain(): hashes become display-order hex strings
ToPorcelain(blk) ==
  [EmptyFields EXCEPT
     !.version = blk.version,
     !.previousblockhash = JsString(toHashHex(blk.previousblockhash)),
     !.merkleroot = JsString(toHashHex(blk.merkleroot)),
     !.time = blk.time,
     !.bits = blk.bits,
     !.nonce = blk.nonce]

\* BitcoinBlock.fromPorcelain(porcelain): a header porcelain carries no
\* transaction list; `parent` is not a property it reads
FromPorcelain(p) ==
  IF /\ IsInt32(p.version)
     /\ IsHashHex(p.previousblockhash)
     /\ IsHashHex(p.merkleroot)
     /\ IsUInt32(p.time)
     /\ IsUInt32(p.bits)
     /\ IsUInt32(p.nonce)
     /\ p.tx.kind \in {"null", "undefined"}
  THEN Returned([version |-> p.version,
                 previousblockhash |-> fromHashHex(p.previousblockhash.chars),
                 merkleroot |-> fromHashHex(p.merkleroot.chars),
                 time |-> p.time,
                 bits |-> p.bits,
                 nonce |-> p.nonce])
  ELSE Thrown("TypeError")

\* BitcoinBlock#encode() of a block without transactions: the 80-byte header
BlockEncode(blk) ==
  WriteInt32LE(blk.version) \o blk.previousblockhash \o blk.merkleroot
    \o WriteUInt32LE(blk.time) \o WriteUInt32LE(blk.bits) \o WriteUInt32LE(blk.nonce)

\* ------------------------------------------------------------ the block codec
\* own enumerable properties of a value used as an Object.assign source
OwnFields(v) == IF v.kind = "object" THEN v.fields ELSE EmptyFields

\* Object.assign({}, obj, { tx: null })
EncodeInputKeepTx(obj) == OwnFields(obj)

EncodeInput(obj) == [OwnFields(obj) EXCEPT !.tx = JsNull]

\* what the caller's object holds once encode(obj) has returned: obj is only a
\* source of Object.assign, whose target is a fresh object
ArgAfterEncodeInPlace(obj) ==
  IF obj.kind = "object" THEN JsObject([obj.fields EXCEPT !.tx = JsNull]) ELSE obj

ArgAfterEncode(obj) == obj

\* encode(obj)
encode(obj) ==
  IF TypeOf(obj) # "object"
  THEN Thrown("TypeError")
  ELSE LET blk == FromPorcelain(EncodeInput(obj))
       IN  IF blk.ok THEN Returned(JsBuffer(BlockEncode(blk.value))) ELSE blk

\* the guard of decode(buf)
DecodeGuard(buf) == InstanceOfUint8Array(buf) /\ ConstructorName(buf) = "Uint8Array"

\* BitcoinBlock.decode(buf) reads the transactions that follow the header
DeserializeWholeBlock(b) ==
  IF Len(b) <= HeaderSize THEN Thrown("Error") ELSE DecodeHeaderOnly(b)

\* BitcoinBlock.decodeHeaderOnly(buf)
Deserialize(b) == DecodeHeaderOnly(b)

\* deserialized.parent
ParentLinkNoReverse(des) ==
  CID(1, CODEC_BLOCK_CODE, MultihashEncode(FromHex(des.previousblockhash.chars), HASH_ALG))

ParentLink(des) ==
  CID(1, CODEC_BLOCK_CODE, MultihashEncode(fromHashHex(des.previousblockhash.chars), HASH_ALG))

\* deserialized.tx
TxLinkBlockCodec(des) ==
  CID(1, CODEC_BLOCK_CODE, MultihashEncode(fromHashHex(des.merkleroot.chars), HASH_ALG))

TxLink(des) ==
  CID(1, CODEC_TX_CODE, MultihashEncode(fromHashHex(des.merkleroot.chars), HASH_ALG))

\* "insert links derived from native hash hex strings": two properties are
\* added, those the parser produced are kept
AttachLinksOverHashes(des) ==
  [des EXCEPT !.previousblockhash = ParentLink(des), !.merkleroot = TxLink(des)]

AttachLinks(des) == [des EXCEPT !.parent = ParentLink(des), !.tx = TxLink(des)]

\* what the caller's buffer holds once decode(buf) has returned: the parser
\* works on the copy made by Buffer.from(buf)
ArgAfterDecode(buf) == buf

\* decode(buf)
decode(buf) ==
  IF ~DecodeGuard(buf)
  THEN Thrown("TypeError")
  ELSE LET blk == Deserialize(buf.bytes)
       IN  IF ~blk.ok
           THEN blk
           ELSE Returned(JsObject(AttachLinks(ToPorcelain(blk.value))))

\* the codec registry hands a codec's decode a plain Uint8Array over the bytes
\* it was given
Coerce(v) == IF v.kind = "Buffer" THEN JsUint8Array(v.bytes) ELSE v

\* ------------------------------------------------ hash function (external)
\* multihash 'dbl-sha2-256': a deterministic 32-byte digest of a byte
\* sequence.  The digest function stands for SHA-256 applied twice: the
\* properties below need it to be a function of the bytes, and the inputs
\* are chosen so that distinct inputs used together have distinct digests.
RECURSIVE Absorb(_, _, _)
Absorb(b, lo, hi) ==
  IF lo > hi THEN 0
  ELSE IF lo = hi
  THEN ((b[lo] + 1) * ((lo * lo * 31 + lo * 17 + 1) % 65521)) % 65521
  ELSE LET mid == (lo + hi) \div 2
       IN  (Absorb(b, lo, mid) + Absorb(b, mid + 1, hi)) % 65521

DblSha256(b) ==
  LET a == (Absorb(b, 1, Len(b)) + Len(b) * 7919) % 65521
  IN  [i \in 1..HashSize |->
         IF i = 1 THEN a % 256
         ELSE IF i = 2 THEN a \div 256
         ELSE (a \div (1 + (i % 7)) + a * i + i * i) % 256]

\* ------------------------------------------- transaction codec (bitcoin-tx)
\* compact-size integer: one byte below 0xfd, else a marker and a
\* little-endian value
CompactSize(n) ==
  IF n < 253 THEN << n >>
  ELSE IF n <= 65535 THEN << 253, n % 256, n \div 256 >>
  ELSE << 254 >> \o WriteUInt32LE(Num(n \div 65536, n % 65536))

VarBytes(b) == CompactSize(Len(b)) \o b

RECURSIVE Concat(_)
Concat(ss) == IF ss = << >> THEN << >> ELSE Head(ss) \o Concat(Tail(ss))

\* an input without its witness: outpoint, unlocking script, sequence
EncodeInputOf(in) ==
  in.prev \o WriteUInt32LE(in.index) \o VarBytes(in.script) \o WriteUInt32LE(in.sequence)

\* an output: value (int64, two 32-bit words), locking script
EncodeOutputOf(out) ==
  WriteUInt32LE(out.value.low) \o WriteUInt32LE(out.value.high)
    \o VarBytes(FromHex(out.scriptPubKey.hex))

\* the witness stack of an input: item count, then each item
EncodeWitnessOf(in) ==
  CompactSize(Len(in.witness)) \o Concat([k \in 1..Len(in.witness) |-> VarBytes(in.witness[k])])

\* whether marker, flag and witness stacks are written
WritesWitnessAlways(t, witness) == witness

WritesWitness(t, witness) == witness /\ t.segwit

\* encode(record, {witness})
EncodeTx(t, witness) ==
  WriteInt32LE(t.version)
    \o (IF WritesWitness(t, witness) THEN << 0, 1 >> ELSE << >>)
    \o CompactSize(Len(t.vin))
    \o Concat([k \in 1..Len(t.vin) |-> EncodeInputOf(t.vin[k])])
    \o CompactSize(Len(t.vout))
    \o Concat([k \in 1..Len(t.vout) |-> EncodeOutputOf(t.vout[k])])
    \o (IF WritesWitness(t, witness)
        THEN Concat([k \in 1..Len(t.vin) |-> EncodeWitnessOf(t.vin[k])])
        ELSE << >>)
    \o WriteUInt32LE(t.locktime)

\* the identifier of a transaction or merkle node with the given digest
TxCid(digest) == CID(1, CODEC_TX_CODE, MultihashEncode(digest, HASH_ALG))

\* --------------------------------------------- merkle builder (bitcoin-tx)
NULL_HASH == [i \in 1..HashSize |-> 0]

\* one level up: consecutive pairs, the last node of an odd level paired with
\* itself; each node is the double hash of the 64 bytes left || right
PairUp(level) ==
  LET padded == IF Len(level) % 2 = 1 THEN Append(level, level[Len(level)]) ELSE level
  IN  [j \in 1..(Len(padded) \div 2) |->
         LET data == padded[2 * j - 1] \o padded[2 * j]
         IN  [hash |-> DblSha256(data), data |-> data]]

\* every node above the leaves, level by level, bottom-up
RECURSIVE MerkleNodes(_)
MerkleNodes(level) ==
  IF Len(level) <= 1
  THEN << >>
  ELSE LET up == PairUp(level)
       IN  up \o MerkleNodes([j \in 1..Len(up) |-> up[j].hash])

\* the first transaction whose leaf is emitted: in the witness merkle the
\* coinbase stands in the tree as the null hash and is not emitted
FirstLeaf(witness) == IF witness THEN 1 ELSE 0

\* encodeAll (witness) / encodeAllNoWitness: the nodes in the order they are
\* yielded, each with its identifier and its bytes
EncodeAll(data, witness) ==
  LET n == Len(data.tx)
      bin == [k \in 1..n |-> EncodeTx(data.tx[k], witness)]
      hashes == [k \in 1..n |->
                   IF witness /\ k = 1 THEN NULL_HASH ELSE DblSha256(bin[k])]
      leaves == [k \in 1..(n - FirstLeaf(witness)) |->
                   [cid |-> TxCid(hashes[k + FirstLeaf(witness)]),
                    binary |-> bin[k + FirstLeaf(witness)]]]
      inner == MerkleNodes(hashes)
  IN  leaves \o [j \in 1..Len(inner) |-> [cid |-> TxCid(inner[j].hash), binary |-> inner[j].data]]

\* --------------------------------------------------- verifyMerkle (test)
\* txHashToCid(hash): '5620' + hash, as hex
txHashToCid(hash) == CID(1, CODEC_TX_CODE, FromHex(<< "5", "6", "2", "0" >> \o hash))

\* "how many nodes of this merkle do we expect to see?"
RECURSIVE ExpectedLoopFloor(_, _)
ExpectedLoopFloor(last, expectedNodes) ==
  IF last > 1
  THEN ExpectedLoopFloor(last \div 2, expectedNodes + (last \div 2))
  ELSE expectedNodes

RECURSIVE ExpectedLoop(_, _)
ExpectedLoop(last, expectedNodes) ==
  IF last > 1
  THEN ExpectedLoop((last + 1) \div 2, expectedNodes + ((last + 1) \div 2))
  ELSE expectedNodes

ExpectedNodesFloor(n) == ExpectedLoopFloor(n, n)

ExpectedNodes(n) == ExpectedLoop(n, n)

\* the index verifyMerkle starts counting from: "we skip the coinbase for
\* full merkle"
StartIndex(witness) == IF witness THEN 1 ELSE 0

\* the assertions on one yielded node; "none" when they all pass
NodeCheck(blk, witness, index, node) ==
  IF index < Len(blk.data.tx)
  THEN LET m == blk.meta[index + 1]
           notStripped == witness \/ m.txid = JsNull
           expectedCid == IF notStripped THEN txHashToCid(m.hash) ELSE txHashToCid(m.txid.chars)
       IN  IF notStripped /\ Len(node.binary) # m.end - m.start
           THEN "got expected block length"
           ELSE IF ~notStripped /\ ~(Len(node.binary) < m.end - m.start - 2)
           THEN "got approximate expected block length"
           ELSE IF node.cid # expectedCid
           THEN "cid"
           ELSE "none"
  ELSE IF Len(node.binary) # 64 THEN "inner node length" ELSE "none"

\* the assertions once the sequence has ended
EndCheck(blk, witness, index, lastCid) ==
  IF ~witness /\ lastCid # blk.expectedHeaderTx
  THEN "got expected merkle root"
  ELSE IF index # ExpectedNodes(Len(blk.data.tx))
  THEN "got correct number of merkle nodes"
  ELSE "none"

\* --------------------------------------------- the witness commitment scan
WitnessCommitmentPrefix == << "6", "a", "2", "4", "a", "a", "2", "1", "a", "9", "e", "d" >>

\* spk.startsWith(prefix)
StartsWith(str, prefix) ==
  Len(str) >= Len(prefix) /\ SubSeq(str, 1, Len(prefix)) = prefix

\* the test of one output script
IsCommitmentAnyLength(spk) == StartsWith(spk, WitnessCommitmentPrefix)

IsCommitment(spk) == Len(spk) = 38 * 2 /\ StartsWith(spk, WitnessCommitmentPrefix)

\* Buffer.from(spk.slice(12), 'hex')
CommitmentOf(spk) == FromHex(SubSeq(spk, 13, Len(spk)))

\* ------------------------------------------------------------------ inputs
\* header field values: the number a record carries, and its wire bytes
VersionTable ==
  << [num |-> Num(0, 1), le |-> << 1, 0, 0, 0 >>],
     [num |-> Num(8192, 0), le |-> << 0, 0, 0, 32 >>],
     [num |-> Num(-1, 65534), le |-> << 254, 255, 255, 255 >>] >>

\* time, bits, nonce
TailTable ==
  << [time |-> Num(18783, 43817), bits |-> Num(7424, 65535), nonce |-> Num(31787, 44061),
      le |-> << 41, 171, 95, 73, 255, 255, 0, 29, 29, 172, 43, 124 >>],
     [time |-> Num(65535, 65535), bits |-> Num(0, 0), nonce |-> Num(0, 256),
      le |-> << 255, 255, 255, 255, 0, 0, 0, 0, 0, 1, 0, 0 >>] >>

\* a hash in wire order, and the same hash as a display-order hex string
HashBytes(seed) ==
  [i \in 1..HashSize |-> IF seed = 0 THEN 0 ELSE (seed * i + 3) % 256]

HashHex(seed) ==
  [j \in 1..(2 * HashSize) |->
     LET b == HashBytes(seed)[HashSize + 1 - ((j + 1) \div 2)]
     IN  IF j % 2 = 1 THEN HexDigits[(b \div 16) + 1] ELSE HexDigits[(b % 16) + 1]]

\* seed 0 is the all-zero hash of a block without a parent
PrevSeeds == {0, 7}
MerkleSeeds == {11, 201}

HeaderChoices ==
  [v : 1..Len(VersionTable), p : PrevSeeds, m : MerkleSeeds, t : 1..Len(TailTable)]

RawHeader(c) ==
  VersionTable[c.v].le \o HashBytes(c.p) \o HashBytes(c.m) \o TailTable[c.t].le

HeaderFields(c) ==
  [EmptyFields EXCEPT
     !.version = VersionTable[c.v].num,
     !.previousblockhash = JsString(HashHex(c.p)),
     !.merkleroot = JsString(HashHex(c.m)),
     !.time = TailTable[c.t].time,
     !.bits = TailTable[c.t].bits,
     !.nonce = TailTable[c.t].nonce]

SomeLink(code, seed) == CID(1, code, MultihashEncode(HashBytes(seed), HASH_ALG))

\* transaction bytes that follow a header
Extra(k) == [i \in 1..k |-> (i * 37) % 256]

\* what a caller may pass to encode
EncodeArgs(c) ==
  { JsObject(HeaderFields(c)),
    JsObject([HeaderFields(c) EXCEPT !.parent = SomeLink(CODEC_BLOCK_CODE, 5),
                                     !.tx = SomeLink(CODEC_TX_CODE, 9)]),
    JsNumber(1), JsString(<< "a" >>), JsBoolean(TRUE), JsUndefined, JsNull }

\* what a caller may pass to decode
DecodeArgs(c) ==
  { JsUint8Array(RawHeader(c) \o Extra(k)) : k \in 0..MaxExtra }
    \cup { JsBuffer(RawHeader(c) \o Extra(k)) : k \in {0, MaxExtra} }
    \cup { JsUint8Array(Slice(RawHeader(c), 0, HeaderSize - 1)),
           JsString(ToHex(RawHeader(c))), JsNumber(HeaderSize),
           JsObject(EmptyFields), JsNull, JsUndefined }

\* ---------------------------------------------------- transaction inputs
Satoshi(low, high) == [low |-> low, high |-> high]

\* a pay-to-pubkey-hash locking script
P2pkhHex(seed) ==
  << "7", "6", "a", "9", "1", "4" >>
    \o [j \in 1..40 |-> HexDigits[((seed * j) % 16) + 1]]
    \o << "8", "8", "a", "c" >>

Output(seed) ==
  [value |-> Satoshi(Num(19072 + seed, 61440), Num(0, seed % 2)),
   scriptPubKey |-> [hex |-> P2pkhHex(seed)]]

\* the input of a coinbase: null outpoint
CoinbaseIn(withWitness) ==
  [prev |-> NULL_HASH, index |-> Num(65535, 65535), script |-> << 3, 1, 2, 3 >>,
   sequence |-> Num(65535, 65535),
   witness |-> IF withWitness THEN << NULL_HASH >> ELSE << >>]

\* an input that spends an earlier output
SpendIn(seed, withWitness) ==
  [prev |-> HashBytes(seed), index |-> Num(0, seed % 3),
   script |-> IF withWitness THEN << >> ELSE << 2, seed % 256, 172 >>,
   sequence |-> Num(65535, 65534),
   witness |-> IF withWitness THEN << << 48, seed % 256, 1 >>, << 2, 33 >> >> ELSE << >>]

\* a transaction is segwit-tagged exactly when one of its inputs has a witness
TxChoices ==
  [ver : {1, 2}, nin : 1..MaxIns, nout : 1..MaxTxOuts, sw : BOOLEAN, lock : {0, 1}]

MakeTx(c) ==
  [version |-> Num(0, c.ver),
   segwit |-> c.sw,
   vin |-> [k \in 1..c.nin |-> SpendIn(20 + k, c.sw /\ k = c.nin)],
   vout |-> [k \in 1..c.nout |-> Output(k)],
   locktime |-> Num(c.lock * 7, c.lock * 41234)]

\* ---------------------------------------------------------- block inputs
\* transaction i (0 is the coinbase) of a block; in a segwit block the
\* coinbase and the odd transactions carry witnesses
BlockTx(i, sw) ==
  IF i = 0
  THEN [version |-> Num(0, 1), segwit |-> sw, vin |-> << CoinbaseIn(sw) >>,
        vout |-> << Output(1) >>, locktime |-> Num(0, 0)]
  ELSE [version |-> Num(0, 2), segwit |-> sw /\ i % 2 = 1,
        vin |-> << SpendIn(30 + i, sw /\ i % 2 = 1) >>,
        vout |-> [k \in 1..(1 + (i % 2)) |-> Output(i + k)],
        locktime |-> Num(0, i)]

\* the merkle root a block's header carries: the root of the tree over the
\* witness-stripped transaction hashes
RECURSIVE MerkleRootOf(_)
MerkleRootOf(hashes) ==
  IF Len(hashes) = 1
  THEN hashes[1]
  ELSE MerkleRootOf([j \in 1..((Len(hashes) + 1) \div 2) |->
         DblSha256(hashes[2 * j - 1]
                   \o hashes[IF 2 * j <= Len(hashes) THEN 2 * j ELSE 2 * j - 1])])

RECURSIVE SumLen(_, _)
SumLen(ss, k) == IF k = 0 THEN 0 ELSE Len(ss[k]) + SumLen(ss, k - 1)

\* a block fixture: the RPC data, the raw bytes, and the fixture meta: per
\* transaction its hash, its txid (null unless segwit) and its byte range
MakeBlock(n, sw) ==
  LET txs == [k \in 1..n |-> BlockTx(k - 1, sw)]
      wire == [k \in 1..n |-> EncodeTx(txs[k], TRUE)]
      stripped == [k \in 1..n |-> EncodeTx(txs[k], FALSE)]
      root == MerkleRootOf([k \in 1..n |-> DblSha256(stripped[k])])
      header == VersionTable[2].le \o HashBytes(7) \o root \o TailTable[1].le
      raw == header \o CompactSize(n) \o Concat(wire)
      porcelain == ToPorcelain(DecodeHeaderOnly(raw).value)
  IN  [data |-> [tx |-> txs],
       raw |-> raw,
       meta |-> [k \in 1..n |->
                   [hash |-> ToHex(DblSha256(wire[k])),
                    txid |-> IF txs[k].segwit
                             THEN JsString(ToHex(DblSha256(stripped[k])))
                             ELSE JsNull,
                    start |-> HeaderSize + 1 + SumLen(wire, k - 1),
                    end |-> HeaderSize + 1 + SumLen(wire, k)]],
       expectedHeaderTx |->
         CID(1, CODEC_TX_CODE, MultihashEncode(fromHashHex(porcelain.merkleroot.chars), HASH_ALG))]

NoBlock == [data |-> [tx |-> << >>], raw |-> << >>, meta |-> << >>, expectedHeaderTx |-> JsNull]

\* ------------------------------------------------ commitment scan inputs
CommitmentHex(seed) ==
  WitnessCommitmentPrefix \o [j \in 1..(2 * HashSize) |-> HexDigits[((seed * j + 1) % 16) + 1]]

\* locking scripts a coinbase output may carry
ScriptChoices ==
  { CommitmentHex(3), CommitmentHex(5),
    P2pkhHex(2),
    \* 38 bytes, another prefix
    << "6", "a", "2", "4", "a", "a", "2", "1", "a", "9", "e", "e" >>
      \o [j \in 1..(2 * HashSize) |-> HexDigits[((3 * j + 1) % 16) + 1]],
    \* the prefix, 39 bytes
    CommitmentHex(3) \o << "0", "0" >>,
    \* the prefix, 37 bytes
    SubSeq(CommitmentHex(3), 1, 74) }

Vout(spk) == [scriptPubKey |-> [hex |-> spk]]

RECURSIVE SeqsUpTo(_, _)
SeqsUpTo(S, n) ==
  IF n = 0 THEN { << >> }
  ELSE LET shorter == SeqsUpTo(S, n - 1)
       IN  shorter \cup { Append(q, x) : q \in shorter, x \in S }

\* ----------------------------------------------------------- state machine
VARIABLES
  obj,        \* the value the caller passes to encode
  buf,        \* the value the caller passes to decode
  obj0,       \* obj as the caller built it
  buf0,       \* buf as the caller built it
  encoded,    \* outcome of encode(obj)
  decoded,    \* outcome of decode(buf)
  sliced,     \* outcome of decode(buf.slice(0, 80))
  reencoded,  \* outcome of encode(<the record decode returned>)
  redecoded,  \* outcome of decode(<the bytes encode returned>)
  calls,      \* codec calls made so far
  txRec,              \* the transaction record under test
  txEncoded,          \* outcome of encode(txRec), witness included
  txEncodedNoWitness, \* outcome of encodeNoWitness(txRec)
  mBlock,     \* the block fixture verifyMerkle runs on
  mWitness,   \* verifyMerkle's witness argument
  mIndex,     \* verifyMerkle's index
  mLastCid,   \* verifyMerkle's lastCid
  mEmitted,   \* the nodes the builder has yielded so far
  mFailed,    \* the assertion that failed, "none" while all passed
  mDone,      \* verifyMerkle has returned or thrown
  wcBlock,    \* the block findWitnessCommitment scans
  wcPos,      \* outputs of the coinbase already looked at
  wcResult    \* outcome of findWitnessCommitment

hvars == << obj, buf, obj0, buf0, encoded, decoded, sliced, reencoded, redecoded, calls >>
tvars == << txRec, txEncoded, txEncodedNoWitness >>
mvars == << mBlock, mWitness, mIndex, mLastCid, mEmitted, mFailed, mDone >>
wvars == << wcBlock, wcPos, wcResult >>
vars == << hvars, tvars, mvars, wvars >>

Pending == [ok |-> FALSE, error |-> "pending"]

Done(r) == r # Pending

\* the parts of the state a specification does not use
HeaderIdle ==
  /\ obj = JsUndefined
  /\ buf = JsUndefined
  /\ obj0 = JsUndefined
  /\ buf0 = JsUndefined
  /\ encoded = Pending
  /\ decoded = Pending
  /\ sliced = Pending
  /\ reencoded = Pending
  /\ redecoded = Pending
  /\ calls = 0

TxIdle == txRec = JsNull /\ txEncoded = Pending /\ txEncodedNoWitness = Pending

MerkleIdle ==
  /\ mBlock = NoBlock
  /\ mWitness = FALSE
  /\ mIndex = 0
  /\ mLastCid = JsUndefined
  /\ mEmitted = << >>
  /\ mFailed = "none"
  /\ mDone = FALSE

CommitIdle == wcBlock = [tx |-> << >>] /\ wcPos = 0 /\ wcResult = Pending

Init ==
  /\ \E c \in HeaderChoices :
       /\ obj \in EncodeArgs(c)
       /\ buf \in DecodeArgs(c)
  /\ obj0 = obj
  /\ buf0 = buf
  /\ encoded = Pending
  /\ decoded = Pending
  /\ sliced = Pending
  /\ reencoded = Pending
  /\ redecoded = Pending
  /\ calls = 0
  /\ TxIdle
  /\ MerkleIdle
  /\ CommitIdle

\* encode(obj)
Encode ==
  /\ calls < MaxCalls
  /\ encoded' = encode(obj)
  /\ obj' = ArgAfterEncode(obj)
  /\ calls' = calls + 1
  /\ UNCHANGED << buf, obj0, buf0, decoded, sliced, reencoded, redecoded >>
  /\ UNCHANGED << tvars, mvars, wvars >>

\* decode(buf)
Decode ==
  /\ calls < MaxCalls
  /\ decoded' = decode(buf)
  /\ buf' = ArgAfterDecode(buf)
  /\ calls' = calls + 1
  /\ UNCHANGED << obj, obj0, buf0, encoded, sliced, reencoded, redecoded >>
  /\ UNCHANGED << tvars, mvars, wvars >>

\* decode(raw.slice(0, 80))
DecodeSlice ==
  /\ calls < MaxCalls
  /\ InstanceOfUint8Array(buf)
  /\ sliced' = decode([buf EXCEPT !.bytes = Slice(buf.bytes, 0, HeaderSize)])
  /\ calls' = calls + 1
  /\ UNCHANGED << obj, buf, obj0, buf0, encoded, decoded, reencoded, redecoded >>
  /\ UNCHANGED << tvars, mvars, wvars >>

\* encode(decoded): the record decode returned, links attached
EncodeDecoded ==
  /\ calls < MaxCalls
  /\ decoded.ok
  /\ reencoded' = encode(decoded.value)
  /\ decoded' = Returned(ArgAfterEncode(decoded.value))
  /\ calls' = calls + 1
  /\ UNCHANGED << obj, buf, obj0, buf0, encoded, sliced, redecoded >>
  /\ UNCHANGED << tvars, mvars, wvars >>

\* decode(encoded), through the codec registry
DecodeEncoded ==
  /\ calls < MaxCalls
  /\ encoded.ok
  /\ redecoded' = decode(Coerce(encoded.value))
  /\ calls' = calls + 1
  /\ UNCHANGED << obj, buf, obj0, buf0, encoded, decoded, sliced, reencoded >>
  /\ UNCHANGED << tvars, mvars, wvars >>

Next == Encode \/ Decode \/ DecodeSlice \/ EncodeDecoded \/ DecodeEncoded

Spec == Init /\ [][Next]_vars

\* ------------------------------------------- state machine: transactions
TxInit ==
  /\ \E c \in TxChoices : txRec = MakeTx(c)
  /\ txEncoded = Pending
  /\ txEncodedNoWitness = Pending
  /\ HeaderIdle
  /\ MerkleIdle
  /\ CommitIdle

\* multiformats.encode(txExpected, 'bitcoin-tx')
EncodeWithWitness ==
  /\ txEncoded = Pending
  /\ txEncoded' = Returned(JsBuffer(EncodeTx(txRec, TRUE)))
  /\ UNCHANGED << txRec, txEncodedNoWitness, hvars, mvars, wvars >>

\* bitcoinTx.encodeNoWitness(txExpected)
EncodeNoWitness ==
  /\ txEncodedNoWitness = Pending
  /\ txEncodedNoWitness' = Returned(JsBuffer(EncodeTx(txRec, FALSE)))
  /\ UNCHANGED << txRec, txEncoded, hvars, mvars, wvars >>

TxNext == EncodeWithWitness \/ EncodeNoWitness

TxSpec == TxInit /\ [][TxNext]_vars

\* ------------------------------------------- state machine: verifyMerkle
MerkleInit ==
  /\ \E n \in 1..MaxTx, sw \in BOOLEAN : mBlock = MakeBlock(n, sw)
  /\ mWitness \in BOOLEAN
  /\ mIndex = StartIndex(mWitness)
  /\ mLastCid = JsUndefined
  /\ mEmitted = << >>
  /\ mFailed = "none"
  /\ mDone = FALSE
  /\ HeaderIdle
  /\ TxIdle
  /\ CommitIdle

\* one turn of the for-await loop: the builder yields its next node
MerkleNode ==
  /\ ~mDone
  /\ LET gen == EncodeAll(mBlock.data, mWitness)
     IN  /\ Len(mEmitted) < Len(gen)
         /\ LET node == gen[Len(mEmitted) + 1]
                failed == NodeCheck(mBlock, mWitness, mIndex, node)
            IN  /\ mEmitted' = Append(mEmitted, node)
                /\ mFailed' = failed
                /\ mDone' = (failed # "none")
                /\ mIndex' = IF failed = "none" THEN mIndex + 1 ELSE mIndex
                /\ mLastCid' = IF failed = "none" THEN node.cid ELSE mLastCid
  /\ UNCHANGED << mBlock, mWitness, hvars, tvars, wvars >>

\* the builder's sequence has ended: the closing assertions
MerkleEnd ==
  /\ ~mDone
  /\ Len(mEmitted) = Len(EncodeAll(mBlock.data, mWitness))
  /\ mFailed' = EndCheck(mBlock, mWitness, mIndex, mLastCid)
  /\ mDone' = TRUE
  /\ UNCHANGED << mBlock, mWitness, mIndex, mLastCid, mEmitted, hvars, tvars, wvars >>

MerkleNext == MerkleNode \/ MerkleEnd

MerkleSpec == MerkleInit /\ [][MerkleNext]_vars

\* ---------------------------------- state machine: findWitnessCommitment
CommitInit ==
  /\ \E outs \in SeqsUpTo(ScriptChoices, MaxOuts), other \in {P2pkhHex(4), CommitmentHex(5)} :
       wcBlock = [tx |-> << [vout |-> [k \in 1..Len(outs) |-> Vout(outs[k])]],
                            [vout |-> << Vout(other) >>] >>]
  /\ wcPos = 0
  /\ wcResult = Pending
  /\ HeaderIdle
  /\ TxIdle
  /\ MerkleIdle

\* one turn of the loop over the coinbase's outputs
ScanOutput ==
  /\ wcResult = Pending
  /\ wcPos < Len(wcBlock.tx[1].vout)
  /\ LET spk == wcBlock.tx[1].vout[wcPos + 1].scriptPubKey.hex
     IN  /\ wcResult' = IF IsCommitment(spk) THEN Returned(JsBuffer(CommitmentOf(spk))) ELSE Pending
         /\ wcPos' = wcPos + 1
  /\ UNCHANGED << wcBlock, hvars, tvars, mvars >>

\* the loop ends without a match: the function returns undefined
ScanEnd ==
  /\ wcResult = Pending
  /\ wcPos = Len(wcBlock.tx[1].vout)
  /\ wcResult' = Returned(JsUndefined)
  /\ UNCHANGED << wcBlock, wcPos, hvars, tvars, mvars >>

CommitNext == ScanOutput \/ ScanEnd

CommitSpec == CommitInit /\ [][CommitNext]_vars

\* ------------------------------------------------- properties: block codec
PrimitiveFields == {"version", "previousblockhash", "merkleroot", "time", "bits", "nonce"}

\* a block: a plain Uint8Array holding a header and, possibly, transactions
IsBlockBytes(v) == v.kind = "Uint8Array" /\ Len(v.bytes) >= HeaderSize

IsTypeError(r) == ~r.ok /\ r.error = "TypeError"

IsLinkTo(l, code, digest) ==
  /\ l.kind = "CID"
  /\ l.version = 1
  /\ l.code = code
  /\ MultihashDecode(l.multihash).code = HASH_ALG
  /\ MultihashDecode(l.multihash).digest = digest
  /\ Len(digest) = HashSize

\* C1: for every block b, decode(b) succeeds and encoding the record it
\* returned, parent and tx links still attached, gives the first 80 bytes of b.
C1_EncodeOfDecodedIsHeader ==
  /\ (Done(decoded) /\ IsBlockBytes(buf0)) => decoded.ok
  /\ Done(reencoded) =>
       /\ reencoded.ok
       /\ reencoded.value.bytes = Slice(buf0.bytes, 0, HeaderSize)

C1_Witness ==
  /\ Done(reencoded)
  /\ reencoded.ok
  /\ Len(buf0.bytes) > HeaderSize
  /\ decoded.value.fields.parent.kind = "CID"
  /\ decoded.value.fields.tx.kind = "CID"

C3_DecodeReadsHeaderOnly ==
  /\ (Done(decoded) /\ Done(sliced) /\ Len(buf0.bytes) >= HeaderSize) => decoded = sliced
  /\ (Done(sliced) /\ IsBlockBytes(buf0)) => sliced.ok
  /\ (Done(decoded) /\ IsBlockBytes(buf0) /\ Len(buf0.bytes) = HeaderSize) => decoded.ok

C3_Witness ==
  /\ Done(decoded)
  /\ Done(sliced)
  /\ decoded.ok
  /\ sliced.ok
  /\ Len(buf0.bytes) > HeaderSize

\* C4: a call fails with a TypeError exactly on a type mismatch: encode on
\* every value that is not a record, decode on every value that is not a byte
\* sequence, a Buffer and a plain Uint8Array both being byte sequences.
C4_TypeErrorIffTypeMismatch ==
  /\ Done(encoded) => (IsTypeError(encoded) <=> obj0.kind # "object")
  /\ Done(decoded) => (IsTypeError(decoded) <=> buf0.kind \notin {"Uint8Array", "Buffer"})

RECURSIVE HalvingSum(_)
HalvingSum(n) ==
  IF n <= 1 THEN 0 ELSE ((n + 1) \div 2) + HalvingSum((n + 1) \div 2)

DigestOf(node) == MultihashDecode(node.cid.multihash).digest

\* the identifier the fixture meta gives transaction k in the given mode
MetaCid(blk, witness, k) ==
  IF witness \/ blk.meta[k].txid = JsNull
  THEN txHashToCid(blk.meta[k].hash)
  ELSE txHashToCid(blk.meta[k].txid.chars)

RECURSIVE ChildrenOf(_, _, _)
ChildrenOf(j, start, size) ==
  LET up == (size + 1) \div 2
      p == j - (start + size)
  IN  IF p <= up
      THEN [left |-> start + 2 * p - 1,
            right |-> start + (IF 2 * p <= size THEN 2 * p ELSE 2 * p - 1)]
      ELSE ChildrenOf(j, start + size, up)

\* C7: in base mode the nodes come in this order: the N leaves in transaction
\* order, then each level bottom-up; every inner node is the 64 bytes
\* left || right of its two children, the last node of an odd level being its
\* own sibling; the last node is the root and its identifier is the tx link
\* decode derives from the block's header.
C7_BaseModeOrderAndRoot ==
  ~mWitness =>
    LET n == Len(mBlock.data.tx)
    IN  /\ \A j \in 1..Len(mEmitted) :
             /\ mEmitted[j].cid = TxCid(DblSha256(mEmitted[j].binary))
             /\ j <= n => mEmitted[j].binary = EncodeTx(mBlock.data.tx[j], FALSE)
             /\ j > n =>
                  LET c == ChildrenOf(j, 0, n)
                  IN  /\ Len(mEmitted[j].binary) = 64
                      /\ mEmitted[j].binary = DigestOf(mEmitted[c.left]) \o DigestOf(mEmitted[c.right])
        /\ mDone =>
             /\ mFailed = "none"
             /\ Len(mEmitted) = n + HalvingSum(n)
             /\ mLastCid = mEmitted[Len(mEmitted)].cid
             /\ mLastCid = decode(JsUint8Array(mBlock.raw)).value.fields.tx

C7_Witness ==
  /\ mDone
  /\ ~mWitness
  /\ mFailed = "none"
  /\ Len(mBlock.data.tx) = 5
  /\ Len(mEmitted) = 11
  /\ mBlock.data.tx[2].segwit

\* ----------------------------------------- properties: transaction codec
\* C8: a transaction that is not segwit-tagged has one encoding: with and
\* without witness the bytes are the same.
C8_NonSegwitEncodingsEqual ==
  (Done(txEncoded) /\ Done(txEncodedNoWitness) /\ ~txRec.segwit) =>
    txEncoded.value.bytes = txEncodedNoWitness.value.bytes

C8_Witness ==
  /\ Done(txEncoded)
  /\ Done(txEncodedNoWitness)
  /\ ~txRec.segwit
  /\ Len(txRec.vin) = 2
  /\ Len(txRec.vout) = 2
  /\ Len(txEncoded.value.bytes) > 100

\* ----------------------------------- properties: witness commitment scan
PrefixBytes == << 106, 36, 170, 33, 169, 237 >>

\* the coinbase outputs whose script is 38 bytes and begins with the prefix
Matches(blk) ==
  { k \in 1..Len(blk.tx[1].vout) :
      LET script == FromHex(blk.tx[1].vout[k].scriptPubKey.hex)
      IN  Len(script) = 38 /\ SubSeq(script, 1, 6) = PrefixBytes }

\* C9: the scan returns bytes [6:38] of the first coinbase output whose
\* script is 38 bytes long and begins with 6a24aa21a9ed, and undefined
\* exactly when the coinbase has no such output; the outputs of other
\* transactions play no part.
C9_FirstCommitmentOfCoinbase ==
  Done(wcResult) =>
    /\ wcResult.ok
    /\ IF Matches(wcBlock) = { }
       THEN wcResult.value = JsUndefined
       ELSE LET first == CHOOSE k \in Matches(wcBlock) : \A m \in Matches(wcBlock) : k <= m
                script == FromHex(wcBlock.tx[1].vout[first].scriptPubKey.hex)
            IN  /\ wcResult.value.kind = "Buffer"
                /\ wcResult.value.bytes = SubSeq(script, 7, 38)

C9_Witness ==
  /\ Done(wcResult)
  /\ wcResult.value.kind = "Buffer"
  /\ Len(wcResult.value.bytes) = HashSize
  /\ wcPos = 2
  /\ Cardinality(Matches(wcBlock)) = 2
  /\ wcBlock.tx[1].vout[2] # wcBlock.tx[1].vout[3]

====
